---- MODULE Spec2Model ----
(***************************************************************************)
(* Model of netinvent/usb_resetter: the debug-tree parser, the hub         *)
(* enumerator, the bind/unbind writer, the device signaler and the         *)
(* command-line dispatcher of usb_resetter/usb_resetter.py.                *)
(***************************************************************************)
EXTENDS Integers, Sequences, FiniteSets, TLC

(***************************************************************************)
(* Bounds of the model.                                                    *)
(***************************************************************************)
\* longest debug-tree stream, in lines
MaxLines == 4
\* calls of send_signal_usb_device made by one caller
MaxCalls == 3
\* most entries of /sys/bus/usb/devices that expose idVendor
MaxHubs == 3
\* USB controllers that the glob of reset_usb_controllers finds
NumControllers == 2
\* hubs of the sysfs tree that interface() runs on
NumHubs == 2

(***************************************************************************)
(* Python values.  A str is the sequence of its characters, "" is <<>>.    *)
(***************************************************************************)
\* Python's None: no str, since every character of a str is one character
None == <<"None">>
\* device_path = None
NoPath == None
\* a local name that was never assigned (reading it raises UnboundLocalError)
Unbound == <<>>

\* bool(x) of a str or None
Truthy(x) == x # None /\ x # <<>>

(***************************************************************************)
(* Text of the debug tree.  A number of a header line is its digit string; *)
(* a line is the pattern of the parser it matches, with the groups.        *)
(***************************************************************************)
BusTexts == {<<1>>, <<0, 2>>}
DevTexts == {<<3>>, <<1, 2, 8>>}
ManufacturerTexts == {<<"A", "c", "m", "e">>}
ProductTexts == {<<"D", "i", "s", "k">>}
IdPairs ==
    {<<(<<"A", "B", "C", "D">>), (<<"1", "2", "E", "F">>)>>,
     <<(<<"a", "b", "c", "d">>), (<<"1", "2", "e", "f">>)>>}

Lines ==
    {[kind |-> "T", bus |-> b, dev |-> d] : b \in BusTexts, d \in DevTexts}
    \cup {[kind |-> "SM", text |-> m] : m \in ManufacturerTexts}
    \cup {[kind |-> "SP", text |-> p] : p \in ProductTexts}
    \cup {[kind |-> "P", vendor |-> ip[1], prodid |-> ip[2]] : ip \in IdPairs}
    \cup {[kind |-> "X"]}

\* the (vendor_id, product_id) arguments of get_usb_devices_paths
Filters ==
    {<<None, None>>, <<(<<"A", "B", "C", "D">>), (<<"1", "2", "E", "F">>)>>}

RECURSIVE ToInt(_)
\* int(text) of a digit string
ToInt(digits) ==
    IF digits = <<>> THEN 0
    ELSE 10 * ToInt(SubSeq(digits, 1, Len(digits) - 1)) + digits[Len(digits)]

RECURSIVE Digits(_)
\* the decimal digits of n, without padding
Digits(n) == IF n < 10 THEN <<n>> ELSE Append(Digits(n \div 10), n % 10)

\* "{:03d}".format(n)
Pad3(n) ==
    LET d == Digits(n)
    IN  IF Len(d) >= 3 THEN d ELSE [i \in 1..(3 - Len(d)) |-> 0] \o d

\* os.path.join("/dev/bus/usb", bus, dev)
DevicePath(bus, dev) == <<"/dev/bus/usb", bus, dev>>

(***************************************************************************)
(* State.                                                                  *)
(***************************************************************************)
VARIABLES
    stream,     \* the lines of /sys/kernel/debug/usb/devices
    filt,       \* <<vendor_id, product_id>> given to get_usb_devices_paths
    pos,        \* lines read so far
    parser,     \* the locals of get_usb_devices_paths
    ppc,        \* its position: "idle", "loop", "done", "raised"
    spc,        \* position in send_signal_usb_device: "idle", "open", "ioctl", "finally"
    dsig,       \* its arguments and locals
    open_fds,   \* the file descriptors the process holds open
    syslog,     \* the system calls made on device files, in order
    results,    \* how each call of send_signal_usb_device ended, in order
    systree,    \* the entries of /sys/bus/usb/devices that expose idVendor
    hfilt,      \* <<vendor_id, product_id>> given to get_usb_hubs
    hub_i,      \* entries of the glob visited so far
    hubs,       \* the local hubs of get_usb_hubs
    hpc,        \* its position: "idle", "loop", "done"
    caller,     \* who runs: "parse", "signal" (a caller of the function), ...
    pc,         \* position in interface()
    exit_code,  \* the exit code of the process, NoExit while it runs
    args,       \* the parsed command line
    loc,        \* the locals of interface()
    rh,         \* the frame of reset_usb_hubs: its list, its place in it
    called,     \* the calls of reset_usb_hubs made so far, with their lists
    writes,     \* the writes to bind and unbind control files, in order
    listed      \* what the listings printed

parse_vars == <<stream, filt, pos, parser, ppc>>
signal_vars == <<spc, dsig, open_fds, syslog, results>>
hub_vars == <<systree, hfilt, hub_i, hubs, hpc>>
ctl_vars == <<pc, exit_code>>
run_vars == <<args, loc, rh, called, writes, listed>>
main_vars == <<ctl_vars, run_vars>>
vars == <<parse_vars, signal_vars, hub_vars, caller, main_vars>>

(***************************************************************************)
(* get_usb_devices_paths                                                   *)
(***************************************************************************)
\* the locals before the first readline()
ParserInit ==
    [first_device |-> TRUE,
     manufacturer |-> None,
     product |-> None,
     found_vendor_id |-> None,
     found_product_id |-> None,
     device_path |-> NoPath,
     bus |-> Unbound,
     dev |-> Unbound,
     found_devices |-> <<>>,
     device_paths |-> <<>>,
     raised |-> ""]

\* Device(vendor_id=..., product_id=..., device_path=..., manufacturer=..., product=...)
Device(st) ==
    [vendor_id |-> st.found_vendor_id,
     product_id |-> st.found_product_id,
     device_path |-> st.device_path,
     manufacturer |-> st.manufacturer,
     product |-> st.product]

\* no call of get_usb_devices_paths is under way
ParseIdle ==
    /\ stream = <<>>
    /\ filt = <<None, None>>
    /\ pos = 0
    /\ parser = ParserInit
    /\ ppc = "idle"

\* the local fd before "fd = os.open(...)" has assigned it
NoFd == -1

\* no call of send_signal_usb_device is under way, none was made
SignalIdle ==
    /\ spc = "idle"
    /\ dsig = [device_path |-> NoPath, signal |-> "", sig |-> 0,
               fd |-> NoFd, success |-> FALSE]
    /\ open_fds = {}
    /\ syslog = <<>>
    /\ results = <<>>

\* no call of get_usb_hubs is under way
HubsIdle ==
    /\ systree = <<>>
    /\ hfilt = <<None, None>>
    /\ hub_i = 0
    /\ hubs = <<>>
    /\ hpc = "idle"

\* the exit code while the process runs
NoExit == -1

\* interface() is not running
\* the command line with nothing asked for; args.hub is the list [args.hub]
\* when --hub is given and the empty list when it is not
NoArgs ==
    [list |-> FALSE, list_hubs |-> FALSE, device |-> None, hub |-> <<>>,
     reset_device |-> FALSE, connect_device |-> FALSE,
     disconnect_device |-> FALSE, reset_all |-> FALSE, reset_hub |-> FALSE,
     disable_hub |-> FALSE, enable_hub |-> FALSE]

\* the locals of interface() at its start; k counts the turns of its loops
LocalsInit ==
    [vendor_id |-> None, product_id |-> None, paths |-> <<>>, hubs |-> <<>>,
     k |-> 1]

\* no call of reset_usb_hubs is under way
RhIdle == [by |-> "", hubs |-> <<>>, i |-> 1, step |-> 1, ret |-> ""]

MainIdle ==
    /\ pc = "idle"
    /\ exit_code = NoExit
    /\ args = NoArgs
    /\ loc = LocalsInit
    /\ rh = RhIdle
    /\ called = <<>>
    /\ writes = <<>>
    /\ listed = <<>>

\* the header pattern T:\s+Bus=(\d+).*Dev#=\s+(\d+)
MatchHeader(st, line) ==
    IF line.kind # "T" THEN st
    ELSE LET seen ==
                 IF ~st.first_device
                 THEN [st EXCEPT !.found_devices = Append(@, Device(st))]
                 ELSE [st EXCEPT !.first_device = FALSE,
                                 !.manufacturer = None,
                                 !.product = None,
                                 !.found_vendor_id = None,
                                 !.found_product_id = None]
         IN  [seen EXCEPT !.bus = Pad3(ToInt(line.bus)),
                          !.dev = Pad3(ToInt(line.dev))]

\* the pattern S:\s+Manufacturer=(.*)
MatchManufacturer(st, line) ==
    IF line.kind = "SM" THEN [st EXCEPT !.manufacturer = line.text] ELSE st

\* the pattern S:\s+Product=(.*)
MatchProduct(st, line) ==
    IF line.kind = "SP" THEN [st EXCEPT !.product = line.text] ELSE st

\* the pattern P:\s+Vendor=([0-9A-F]{4})\s+ProdID=([0-9A-F]{4}), case ignored;
\* exists is what os.path.exists(device_path) answers
MatchIds(st, line, vendor_id, product_id, exists) ==
    IF line.kind # "P" THEN st
    ELSE LET ids == [st EXCEPT !.found_vendor_id = line.vendor,
                               !.found_product_id = line.prodid]
         IN  IF st.bus = Unbound
             THEN [ids EXCEPT !.raised = "UnboundLocalError"]
             ELSE LET path == DevicePath(st.bus, st.dev)
                      at == [ids EXCEPT !.device_path = path]
                  IN  IF vendor_id = line.vendor /\ product_id = line.prodid
                         /\ exists
                      THEN [at EXCEPT !.device_paths = Append(@, path)]
                      ELSE at

\* one turn of the while loop on a line that was read
ParseLine(st, line, vendor_id, product_id, exists) ==
    MatchIds(MatchProduct(MatchManufacturer(MatchHeader(st, line), line), line),
             line, vendor_id, product_id, exists)

\* FlushFinal without the append of the final device
FlushFinalDropsLast(st) ==
    IF st.bus = Unbound
    THEN [st EXCEPT !.raised = "UnboundLocalError"]
    ELSE st

\* after the loop: "if bus and dev:" appends the final device
FlushFinal(st) ==
    IF st.bus = Unbound
    THEN [st EXCEPT !.raised = "UnboundLocalError"]
    ELSE [st EXCEPT !.found_devices = Append(@, Device(st))]

RECURSIVE ParseFrom(_, _, _, _)
\* the whole function on a stream whose device files all exist
ParseFrom(st, lines, vendor_id, product_id) ==
    IF st.raised # "" THEN st
    ELSE IF lines = <<>> THEN FlushFinal(st)
    ELSE ParseFrom(ParseLine(st, Head(lines), vendor_id, product_id, TRUE),
                   Tail(lines), vendor_id, product_id)

(***************************************************************************)
(* send_signal_usb_device                                                  *)
(***************************************************************************)
USBDEVFS_RESET == 85 * 256 + 20
USBDEVFS_DISCONNECT == 85 * 256 + 22
USBDEVFS_CONNECT == 85 * 256 + 23

\* the device files a caller names
DevicePaths ==
    {DevicePath(<<0, 0, 1>>, <<0, 0, 3>>), DevicePath(<<0, 0, 2>>, <<1, 2, 8>>)}

ValidSignals == {"reset", "disconnect", "connect"}

\* the ioctl code of a signal
SignalCode(signal) ==
    CASE signal = "reset" -> USBDEVFS_RESET
      [] signal = "disconnect" -> USBDEVFS_DISCONNECT
      [] signal = "connect" -> USBDEVFS_CONNECT

\* the descriptor os.open returns: the lowest one that is free
LowestFree ==
    CHOOSE n \in 1..(Cardinality(open_fds) + 1) :
        n \notin open_fds /\ \A m \in 1..(n - 1) : m \in open_fds

\* the call under way is the one after those that ended
ThisCall == Len(results) + 1

\* the function ends: it returns success, or an exception leaves it.  In
\* interface() nothing catches the exception before main(), which exits 201.
SignalEnds(outcome) ==
    /\ results' = Append(results, outcome)
    /\ spc' = "idle"
    /\ IF caller = "interface" /\ outcome \notin {"True", "False"}
       THEN pc' = "exit" /\ exit_code' = 201
       ELSE UNCHANGED ctl_vars

\* the entry of the function: the signal's code, or TypeError
SignalEnter(device_path, signal) ==
    /\ spc = "idle"
    /\ IF signal \in ValidSignals
       THEN /\ dsig' = [device_path |-> device_path, signal |-> signal,
                        sig |-> SignalCode(signal), fd |-> NoFd,
                        success |-> FALSE]
            /\ spc' = "open"
            /\ UNCHANGED <<results, ctl_vars>>
       ELSE /\ SignalEnds("TypeError")
            /\ UNCHANGED dsig
    /\ UNCHANGED <<open_fds, syslog>>

\* fd = os.open(device_path, os.O_WRONLY), and the except clause when it fails
SignalOpen ==
    /\ spc = "open"
    /\ \E ok \in BOOLEAN :
           /\ syslog' = Append(syslog,
                  [call |-> ThisCall, op |-> "open", path |-> dsig.device_path,
                   fd |-> IF ok THEN LowestFree ELSE NoFd, ok |-> ok])
           /\ IF ok
              THEN /\ dsig' = [dsig EXCEPT !.fd = LowestFree]
                   /\ open_fds' = open_fds \cup {LowestFree}
                   /\ spc' = "ioctl"
              ELSE /\ dsig' = [dsig EXCEPT !.success = FALSE]
                   /\ open_fds' = open_fds
                   /\ spc' = "finally"
    /\ UNCHANGED <<results, parse_vars, hub_vars, caller, main_vars>>

\* fcntl.ioctl(fd, sig, 0), then success = True or the except clause
SignalIoctl ==
    /\ spc = "ioctl"
    /\ \E ok \in BOOLEAN :
           /\ syslog' = Append(syslog,
                  [call |-> ThisCall, op |-> "ioctl", path |-> dsig.device_path,
                   fd |-> dsig.fd, ok |-> ok])
           /\ dsig' = [dsig EXCEPT !.success = ok]
    /\ spc' = "finally"
    /\ UNCHANGED <<open_fds, results, parse_vars, hub_vars, caller, main_vars>>

\* SignalFinally with the close left out when the control operation failed
SignalFinallyLeaks ==
    /\ spc = "finally"
    /\ IF dsig.fd = NoFd
       THEN /\ SignalEnds("UnboundLocalError")
            /\ UNCHANGED <<open_fds, syslog>>
       ELSE /\ IF dsig.success
               THEN /\ open_fds' = open_fds \ {dsig.fd}
                    /\ syslog' = Append(syslog,
                           [call |-> ThisCall, op |-> "close",
                            path |-> dsig.device_path, fd |-> dsig.fd,
                            ok |-> TRUE])
               ELSE UNCHANGED <<open_fds, syslog>>
            /\ SignalEnds(IF dsig.success THEN "True" ELSE "False")
    /\ UNCHANGED <<dsig, parse_vars, hub_vars, caller, run_vars>>

\* finally: os.close(fd), then return success.  Reading fd when os.open
\* failed raises UnboundLocalError before any close is made.
SignalFinally ==
    /\ spc = "finally"
    /\ IF dsig.fd = NoFd
       THEN /\ SignalEnds("UnboundLocalError")
            /\ UNCHANGED <<open_fds, syslog>>
       ELSE /\ open_fds' = open_fds \ {dsig.fd}
            /\ syslog' = Append(syslog,
                   [call |-> ThisCall, op |-> "close",
                    path |-> dsig.device_path, fd |-> dsig.fd, ok |-> TRUE])
            /\ SignalEnds(IF dsig.success THEN "True" ELSE "False")
    /\ UNCHANGED <<dsig, parse_vars, hub_vars, caller, run_vars>>

\* a caller of the function: any device file, any signal, one call after
\* the other; an exception of a call is caught by the caller
InitSignal ==
    /\ caller = "signal"
    /\ SignalIdle
    /\ ParseIdle
    /\ HubsIdle
    /\ MainIdle

CallSignal ==
    /\ caller = "signal"
    /\ Len(results) < MaxCalls
    /\ \E device_path \in DevicePaths, signal \in ValidSignals \cup {"bogus"} :
           SignalEnter(device_path, signal)
    /\ UNCHANGED <<parse_vars, hub_vars, caller, run_vars>>

NextSignal == CallSignal \/ SignalOpen \/ SignalIoctl \/ SignalFinally

SpecSignal == InitSignal /\ [][NextSignal]_vars

(***************************************************************************)
(* get_usb_hubs                                                            *)
(***************************************************************************)
Whitespace == {" ", "\n", "\t"}

RECURSIVE LStrip(_)
LStrip(text) ==
    IF text # <<>> /\ Head(text) \in Whitespace THEN LStrip(Tail(text)) ELSE text

RECURSIVE RStrip(_)
RStrip(text) ==
    IF text # <<>> /\ text[Len(text)] \in Whitespace
    THEN RStrip(SubSeq(text, 1, Len(text) - 1))
    ELSE text

\* str.strip()
Strip(text) == RStrip(LStrip(text))

\* the directory of the sysfs device nodes, by components
SysUsbDevices == <<"sys", "bus", "usb", "devices">>

\* what the idVendor and idProduct files of an entry hold; an entry that is
\* not readable raises OSError on open
HubFiles ==
    {[readable |-> TRUE,
      idVendor |-> <<"a", "b", "c", "d", "\n">>,
      idProduct |-> <<"1", "2", "e", "f", "\n">>],
     [readable |-> TRUE,
      idVendor |-> <<"8", "0", "8", "6", "\n">>,
      idProduct |-> <<"0", "0", "0", "1", "\n">>],
     [readable |-> FALSE, idVendor |-> <<>>, idProduct |-> <<>>]}

\* the i-th entry of the glob: os.path.dirname(entry) and its files
HubEntry(i, files) ==
    [hub_path |-> [dir |-> SysUsbDevices, base |-> i], files |-> files]

\* the trees of at most n entries
SysTrees(n) ==
    UNION {{[i \in 1..m |-> HubEntry(i, f[i])] : f \in [1..m -> HubFiles]} :
           m \in 0..n}

\* the device filters a caller gives: none, "8086":"0001", "abcd":"12ef",
\* "ABCD":"12EF", "":"" (the device argument ":") and "":"0001"
HubFilters ==
    {<<None, None>>,
     <<(<<"8", "0", "8", "6">>), (<<"0", "0", "0", "1">>)>>,
     <<(<<"a", "b", "c", "d">>), (<<"1", "2", "e", "f">>)>>,
     <<(<<"A", "B", "C", "D">>), (<<"1", "2", "E", "F">>)>>,
     <<(<<>>), (<<>>)>>,
     <<(<<>>), (<<"0", "0", "0", "1">>)>>}

\* the condition of the if: both ids equal, or no filter
HubSelected(entry, vendor_id, product_id) ==
    \/ /\ vendor_id = Strip(entry.files.idVendor)
       /\ product_id = Strip(entry.files.idProduct)
    \/ (~Truthy(vendor_id) /\ ~Truthy(product_id))

\* one turn of the for loop: hubs after the entry was visited
VisitHub(found, entry, vendor_id, product_id) ==
    IF ~entry.files.readable THEN found
    ELSE IF HubSelected(entry, vendor_id, product_id)
         THEN Append(found, entry.hub_path)
         ELSE found

RECURSIVE GetUsbHubsFrom(_, _, _, _)
GetUsbHubsFrom(found, entries, vendor_id, product_id) ==
    IF entries = <<>> THEN found
    ELSE GetUsbHubsFrom(VisitHub(found, Head(entries), vendor_id, product_id),
                        Tail(entries), vendor_id, product_id)

\* the whole function on a tree
GetUsbHubs(entries, vendor_id, product_id) ==
    GetUsbHubsFrom(<<>>, entries, vendor_id, product_id)

InitHubs ==
    /\ caller = "hubs"
    /\ systree \in SysTrees(MaxHubs)
    /\ hfilt \in HubFilters
    /\ hub_i = 0
    /\ hubs = <<>>
    /\ hpc = "loop"
    /\ ParseIdle
    /\ SignalIdle
    /\ MainIdle

\* the for loop visits the next entry of the glob
NextEntry ==
    /\ hpc = "loop"
    /\ hub_i < Len(systree)
    /\ hubs' = VisitHub(hubs, systree[hub_i + 1], hfilt[1], hfilt[2])
    /\ hub_i' = hub_i + 1
    /\ UNCHANGED <<systree, hfilt, hpc, parse_vars, signal_vars, caller, main_vars>>

\* the glob is exhausted: return hubs
ReturnHubs ==
    /\ hpc = "loop"
    /\ hub_i = Len(systree)
    /\ hpc' = "done"
    /\ UNCHANGED <<systree, hfilt, hub_i, hubs, parse_vars, signal_vars, caller,
                   main_vars>>

NextHubs == NextEntry \/ ReturnHubs

SpecHubs == InitHubs /\ [][NextHubs]_vars

(***************************************************************************)
(* hub_binder, reset_usb_hubs, reset_usb_controllers                       *)
(***************************************************************************)
pci_unbind_path == <<"sys", "bus", "pci", "drivers">>
usb_unbind_path == <<"sys", "bus", "usb", "drivers", "usb">>

\* str.startswith, on paths by components
StartsWith(path, prefix) ==
    Len(path) >= Len(prefix) /\ SubSeq(path, 1, Len(prefix)) = prefix

\* the control file hub_binder opens and what it writes to it
HubBinder(hub_path, action) ==
    LET current_hub == hub_path.base
        basepath == hub_path.dir
        unbind_path ==
            IF StartsWith(basepath, pci_unbind_path)
               \/ StartsWith(basepath, usb_unbind_path)
            THEN basepath
            ELSE usb_unbind_path
    IN  [file |-> Append(unbind_path, action), data |-> current_hub]

\* a write of hub_binder as the log keeps it: who asked for it, the hub,
\* the action, the file and the data, and whether open and write succeeded
Write(by, hub_path, action, ok) ==
    [by |-> by, hub |-> hub_path, action |-> action,
     file |-> HubBinder(hub_path, action).file,
     data |-> HubBinder(hub_path, action).data, ok |-> ok]

\* hub_binder with the OSError of a failed write caught and dropped
HubBinderSwallows(ok) == FALSE

\* hub_binder catches nothing: a failed open or write raises OSError
HubBinderRaises(ok) == ~ok

\* reset_usb_hubs with bind written before unbind
ResetUsbHubsBindFirst == <<"bind", "unbind">>

\* the body of the for loop of reset_usb_hubs
ResetUsbHubsActions == <<"unbind", "bind">>

\* glob.glob(USB_CONTROLLER_PATHS)
Controllers ==
    [i \in 1..NumControllers |->
        [dir |-> <<"sys", "bus", "pci", "drivers", "xhci_hcd">>, base |-> i]]

\* an exception reaches main(): "except Exception" exits 201
Raise ==
    /\ pc' = "exit"
    /\ exit_code' = 201

\* reset_usb_hubs(hublist), called for by; control goes to ret on return
CallResetUsbHubs(by, hublist, ret) ==
    /\ rh' = [by |-> by, hubs |-> hublist, i |-> 1, step |-> 1, ret |-> ret]
    /\ called' = Append(called, [by |-> by, hubs |-> hublist])
    /\ pc' = IF hublist = <<>> THEN ret ELSE "reset_usb_hubs"
    /\ UNCHANGED exit_code

\* one hub_binder call of reset_usb_hubs
ResetUsbHubsWrite ==
    /\ pc = "reset_usb_hubs"
    /\ \E ok \in BOOLEAN :
           /\ writes' = Append(writes,
                  Write(rh.by, rh.hubs[rh.i], ResetUsbHubsActions[rh.step], ok))
           /\ IF HubBinderRaises(ok)
              THEN Raise /\ UNCHANGED rh
              ELSE IF rh.step < Len(ResetUsbHubsActions)
              THEN rh' = [rh EXCEPT !.step = @ + 1] /\ UNCHANGED ctl_vars
              ELSE IF rh.i < Len(rh.hubs)
              THEN rh' = [rh EXCEPT !.i = @ + 1, !.step = 1]
                   /\ UNCHANGED ctl_vars
              ELSE pc' = rh.ret /\ UNCHANGED <<rh, exit_code>>
    /\ UNCHANGED <<args, loc, called, listed, parse_vars, signal_vars, hub_vars,
                   caller>>

(***************************************************************************)
(* interface() and main()                                                  *)
(***************************************************************************)
\* the values of --device: not given, "", "abcd", ":", "abcd:12ef"
DeviceArgs ==
    {None, <<>>, <<"a", "b", "c", "d">>, <<":">>,
     <<"a", "b", "c", "d", ":", "1", "2", "e", "f">>}

\* the values of --hub: not given, or a hub path
HubArgs == {<<>>, <<[dir |-> SysUsbDevices, base |-> 1]>>}

ArgSpace ==
    [list : BOOLEAN, list_hubs : BOOLEAN, device : DeviceArgs, hub : HubArgs,
     reset_device : BOOLEAN, connect_device : BOOLEAN,
     disconnect_device : BOOLEAN, reset_all : BOOLEAN, reset_hub : BOOLEAN,
     disable_hub : BOOLEAN, enable_hub : BOOLEAN]

\* the debug tree the process reads: two devices abcd:12ef
DebugTree ==
    <<[kind |-> "X"],
      [kind |-> "T", bus |-> <<1>>, dev |-> <<3>>],
      [kind |-> "P", vendor |-> <<"a", "b", "c", "d">>,
                     prodid |-> <<"1", "2", "e", "f">>],
      [kind |-> "SM", text |-> <<"A", "c", "m", "e">>],
      [kind |-> "T", bus |-> <<0, 2>>, dev |-> <<1, 2, 8>>],
      [kind |-> "P", vendor |-> <<"a", "b", "c", "d">>,
                     prodid |-> <<"1", "2", "e", "f">>]>>

\* the sysfs tree the process reads: hubs abcd:12ef and 8086:0001 in turn
MainTree ==
    [i \in 1..NumHubs |->
        HubEntry(i,
            IF i % 2 = 1
            THEN [readable |-> TRUE,
                  idVendor |-> <<"a", "b", "c", "d", "\n">>,
                  idProduct |-> <<"1", "2", "e", "f", "\n">>]
            ELSE [readable |-> TRUE,
                  idVendor |-> <<"8", "0", "8", "6", "\n">>,
                  idProduct |-> <<"0", "0", "0", "1", "\n">>])]

RECURSIVE Split(_)
\* text.split(":")
Split(text) ==
    IF \A i \in 1..Len(text) : text[i] # ":" THEN <<text>>
    ELSE LET i == CHOOSE j \in 1..Len(text) :
                      text[j] = ":" /\ \A m \in 1..(j - 1) : text[m] # ":"
         IN  <<SubSeq(text, 1, i - 1)>> \o Split(SubSeq(text, i + 1, Len(text)))

DeviceAction ==
    args.reset_device \/ args.disconnect_device \/ args.connect_device

HubAction == args.disable_hub \/ args.enable_hub \/ args.reset_hub

\* the signals of the body of "for path in paths", in the order of the ifs
LoopSignals == <<"reset", "connect", "disconnect">>

LoopFlag(signal) ==
    CASE signal = "reset" -> args.reset_device
      [] signal = "connect" -> args.connect_device
      [] signal = "disconnect" -> args.disconnect_device

\* turn k of the device loop sends LoopSignals[LoopSignal(k)] to
\* paths[LoopPath(k)] when its flag is set
LoopPath(k) == ((k - 1) \div Len(LoopSignals)) + 1
LoopSignal(k) == LoopSignals[((k - 1) % Len(LoopSignals)) + 1]

\* the first turn from k on whose flag is set, 0 when the loop is over
NextSend(k) ==
    LET turns == {m \in k..(Len(loc.paths) * Len(LoopSignals)) :
                      LoopFlag(LoopSignal(m))}
    IN  IF turns = {} THEN 0
        ELSE CHOOSE m \in turns : \A n \in turns : m <= n

InitMain ==
    /\ caller = "interface"
    /\ args \in ArgSpace
    /\ pc = "reset_all"
    /\ exit_code = NoExit
    /\ loc = LocalsInit
    /\ rh = RhIdle
    /\ called = <<>>
    /\ writes = <<>>
    /\ listed = <<>>
    /\ ParseIdle
    /\ SignalIdle
    /\ HubsIdle

\* if args.reset_all: reset_usb_controllers()
MainResetAll ==
    /\ pc = "reset_all"
    /\ IF args.reset_all
       THEN CallResetUsbHubs("reset_all", Controllers, "device")
       ELSE pc' = "device" /\ UNCHANGED <<exit_code, rh, called>>
    /\ UNCHANGED <<args, loc, writes, listed, parse_vars, signal_vars, hub_vars,
                   caller>>

\* if args.device: vendor_id, product_id = args.device.split(":"), and
\* sys.exit(2) on ValueError; SystemExit is no Exception, main() lets it by
MainDevice ==
    /\ pc = "device"
    /\ IF Truthy(args.device)
       THEN LET tokens == Split(args.device)
            IN  IF Len(tokens) = 2
                THEN /\ loc' = [loc EXCEPT !.vendor_id = tokens[1],
                                           !.product_id = tokens[2]]
                     /\ pc' = "actions"
                     /\ UNCHANGED exit_code
                ELSE /\ pc' = "exit"
                     /\ exit_code' = 2
                     /\ UNCHANGED loc
       ELSE pc' = "actions" /\ UNCHANGED <<exit_code, loc>>
    /\ UNCHANGED <<args, rh, called, writes, listed, parse_vars, signal_vars,
                   hub_vars, caller>>

\* the outer if: device actions, else hub actions, else neither
MainActions ==
    /\ pc = "actions"
    /\ IF DeviceAction
       THEN LET got == ParseFrom(ParserInit, DebugTree, loc.vendor_id,
                                 loc.product_id)
            IN  IF got.raised # ""
                THEN Raise /\ UNCHANGED loc
                ELSE /\ loc' = [loc EXCEPT !.paths = got.device_paths, !.k = 1]
                     /\ pc' = "device_loop"
                     /\ UNCHANGED exit_code
       ELSE IF HubAction
       THEN /\ loc' = [loc EXCEPT
                          !.hubs = IF args.hub # <<>> THEN args.hub
                                   ELSE GetUsbHubs(MainTree, loc.vendor_id,
                                                   loc.product_id),
                          !.k = 1]
            /\ pc' = "disable_hub"
            /\ UNCHANGED exit_code
       ELSE pc' = "list" /\ UNCHANGED <<exit_code, loc>>
    /\ UNCHANGED <<args, rh, called, writes, listed, parse_vars, signal_vars,
                   hub_vars, caller>>

\* MainDeviceLoop with the hub actions run after the device actions, as
\* they would be were the two ifs not joined by else
MainDeviceLoopThenHubs ==
    /\ pc = "device_loop"
    /\ spc = "idle"
    /\ LET k == NextSend(loc.k)
       IN  IF k = 0
           THEN /\ pc' = "disable_hub"
                /\ loc' = [loc EXCEPT
                              !.hubs = IF args.hub # <<>> THEN args.hub
                                       ELSE GetUsbHubs(MainTree, loc.vendor_id,
                                                       loc.product_id),
                              !.k = 1]
                /\ UNCHANGED <<exit_code, signal_vars>>
           ELSE /\ SignalEnter(loc.paths[LoopPath(k)], LoopSignal(k))
                /\ loc' = [loc EXCEPT !.k = k + 1]
    /\ UNCHANGED <<args, rh, called, writes, listed, parse_vars, hub_vars,
                   caller>>

\* for path in paths: the next send_signal_usb_device call, or the end of
\* the loop
MainDeviceLoop ==
    /\ pc = "device_loop"
    /\ spc = "idle"
    /\ LET k == NextSend(loc.k)
       IN  IF k = 0
           THEN /\ pc' = "list"
                /\ UNCHANGED <<exit_code, loc, signal_vars>>
           ELSE /\ SignalEnter(loc.paths[LoopPath(k)], LoopSignal(k))
                /\ loc' = [loc EXCEPT !.k = k + 1]
    /\ UNCHANGED <<args, rh, called, writes, listed, parse_vars, hub_vars,
                   caller>>

\* one turn of "for hub in hubs: hub_binder(hub, action)" under flag, or
\* the step to what follows the loop
HubLoop(flag, by, action, next) ==
    /\ IF flag /\ loc.k <= Len(loc.hubs)
       THEN \E ok \in BOOLEAN :
                /\ writes' = Append(writes, Write(by, loc.hubs[loc.k], action, ok))
                /\ IF HubBinderRaises(ok)
                   THEN Raise /\ UNCHANGED loc
                   ELSE loc' = [loc EXCEPT !.k = @ + 1] /\ UNCHANGED ctl_vars
       ELSE /\ pc' = next
            /\ loc' = [loc EXCEPT !.k = 1]
            /\ UNCHANGED <<exit_code, writes>>
    /\ UNCHANGED <<args, rh, called, listed, parse_vars, signal_vars, hub_vars,
                   caller>>

\* if args.disable_hub: for hub in hubs: hub_binder(hub, "unbind")
MainDisableHub ==
    /\ pc = "disable_hub"
    /\ HubLoop(args.disable_hub, "disable_hub", "unbind", "enable_hub")

\* if args.enable_hub: for hub in hubs: hub_binder(hub, "bind")
MainEnableHub ==
    /\ pc = "enable_hub"
    /\ HubLoop(args.enable_hub, "enable_hub", "bind", "reset_hub")

\* if args.reset_hub: reset_usb_hubs(hubs)
MainResetHub ==
    /\ pc = "reset_hub"
    /\ IF args.reset_hub
       THEN CallResetUsbHubs("reset_hub", loc.hubs, "list")
       ELSE pc' = "list" /\ UNCHANGED <<exit_code, rh, called>>
    /\ UNCHANGED <<args, loc, writes, listed, parse_vars, signal_vars, hub_vars,
                   caller>>

\* if args.list: get_usb_devices_paths(list_only=True)
MainList ==
    /\ pc = "list"
    /\ IF args.list
       THEN LET got == ParseFrom(ParserInit, DebugTree, None, None)
            IN  IF got.raised # ""
                THEN Raise /\ UNCHANGED listed
                ELSE /\ listed' = Append(listed,
                            [what |-> "devices", items |-> got.found_devices])
                     /\ pc' = "list_hubs"
                     /\ UNCHANGED exit_code
       ELSE pc' = "list_hubs" /\ UNCHANGED <<exit_code, listed>>
    /\ UNCHANGED <<args, loc, rh, called, writes, parse_vars, signal_vars,
                   hub_vars, caller>>

\* if args.list_hubs: list_usb_hubs(vendor_id, product_id); then interface()
\* returns and the process exits 0
MainListHubs ==
    /\ pc = "list_hubs"
    /\ listed' = IF args.list_hubs
                 THEN Append(listed,
                          [what |-> "hubs",
                           items |-> GetUsbHubs(MainTree, loc.vendor_id,
                                                loc.product_id)])
                 ELSE listed
    /\ pc' = "exit"
    /\ exit_code' = 0
    /\ UNCHANGED <<args, loc, rh, called, writes, parse_vars, signal_vars,
                   hub_vars, caller>>

Next ==
    \/ MainResetAll
    \/ ResetUsbHubsWrite
    \/ MainDevice
    \/ MainActions
    \/ MainDeviceLoop
    \/ SignalOpen
    \/ SignalIoctl
    \/ SignalFinally
    \/ MainDisableHub
    \/ MainEnableHub
    \/ MainResetHub
    \/ MainList
    \/ MainListHubs

Spec == InitMain /\ [][Next]_vars

RECURSIVE StreamsUpTo(_)
StreamsUpTo(n) ==
    IF n = 0 THEN {<<>>}
    ELSE LET shorter == StreamsUpTo(n - 1)
         IN  shorter \cup {Append(s, l) : s \in {t \in shorter : Len(t) = n - 1},
                                          l \in Lines}

InitParse ==
    /\ stream \in StreamsUpTo(MaxLines)
    /\ filt \in Filters
    /\ pos = 0
    /\ parser = ParserInit
    /\ ppc = "loop"
    /\ caller = "parse"
    /\ SignalIdle
    /\ HubsIdle
    /\ MainIdle

\* readline() returned a line
ReadLine ==
    /\ ppc = "loop"
    /\ pos < Len(stream)
    /\ \E exists \in BOOLEAN :
           parser' = ParseLine(parser, stream[pos + 1], filt[1], filt[2], exists)
    /\ pos' = pos + 1
    /\ ppc' = IF parser'.raised # "" THEN "raised" ELSE "loop"
    /\ UNCHANGED <<stream, filt, signal_vars, hub_vars, caller, main_vars>>

\* readline() returned "": leave the loop, append the final device, return
EndOfStream ==
    /\ ppc = "loop"
    /\ pos = Len(stream)
    /\ parser' = FlushFinal(parser)
    /\ ppc' = IF parser'.raised # "" THEN "raised" ELSE "done"
    /\ UNCHANGED <<stream, filt, pos, signal_vars, hub_vars, caller, main_vars>>

NextParse == ReadLine \/ EndOfStream

SpecParse == InitParse /\ [][NextParse]_vars

(***************************************************************************)
(* usb_reset.py: the script with a list of devices                         *)
(***************************************************************************)
\* the most entries a --devices list holds
MaxEntries == 3

\* entries of --devices: "abcd", "1:2:3", "abcd:12ef", " 8086:0001"
EntryTexts ==
    {<<"a", "b", "c", "d">>,
     <<"1", ":", "2", ":", "3">>,
     <<"a", "b", "c", "d", ":", "1", "2", "e", "f">>,
     <<" ", "8", "0", "8", "6", ":", "0", "0", "0", "1">>}

RECURSIVE Join(_)
\* ",".join(entries)
Join(entries) ==
    IF Len(entries) = 1 THEN entries[1]
    ELSE entries[1] \o <<",">> \o Join(Tail(entries))

\* the values of --devices: not given, "", or a list of entries
DevicesArgs ==
    {None, <<>>}
        \cup {Join(es) : es \in UNION {[1..n -> EntryTexts] : n \in 1..MaxEntries}}

ScriptArgSpace == [devices : DevicesArgs, reset : BOOLEAN, list : BOOLEAN]

RECURSIVE SplitOn(_, _)
\* text.split(sep) for a separator of one character
SplitOn(text, sep) ==
    IF \A i \in 1..Len(text) : text[i] # sep THEN <<text>>
    ELSE LET i == CHOOSE j \in 1..Len(text) :
                      text[j] = sep /\ \A m \in 1..(j - 1) : text[m] # sep
         IN  <<SubSeq(text, 1, i - 1)>>
                 \o SplitOn(SubSeq(text, i + 1, Len(text)), sep)

\* the debug tree the script reads: devices abcd:12ef and 8086:0001
ScriptTree ==
    <<[kind |-> "T", bus |-> <<1>>, dev |-> <<3>>],
      [kind |-> "P", vendor |-> <<"a", "b", "c", "d">>,
                     prodid |-> <<"1", "2", "e", "f">>],
      [kind |-> "SM", text |-> <<"A", "c", "m", "e">>],
      [kind |-> "T", bus |-> <<0, 2>>, dev |-> <<1, 2, 8>>],
      [kind |-> "P", vendor |-> <<"8", "0", "8", "6">>,
                     prodid |-> <<"0", "0", "0", "1">>]>>

\* the device files of ScriptTree
ScriptDevicePaths ==
    {DevicePath(<<0, 0, 1>>, <<0, 0, 3>>), DevicePath(<<0, 0, 2>>, <<1, 2, 8>>)}

\* the locals of the script's get_usb_devices_paths before the first
\* readline(): device_path, bus and dev are not assigned yet
ScriptParserInit ==
    [ParserInit EXCEPT !.device_path = Unbound]

\* the header pattern; the append for the device before reads device_path
ScriptMatchHeader(st, line) ==
    IF line.kind # "T" THEN st
    ELSE IF ~st.first_device /\ st.device_path = Unbound
    THEN [st EXCEPT !.raised = "UnboundLocalError"]
    ELSE LET seen ==
                 IF ~st.first_device
                 THEN [st EXCEPT !.found_devices = Append(@, Device(st))]
                 ELSE [st EXCEPT !.first_device = FALSE,
                                 !.manufacturer = None,
                                 !.product = None,
                                 !.found_vendor_id = None,
                                 !.found_product_id = None]
         IN  [seen EXCEPT !.bus = Pad3(ToInt(line.bus)),
                          !.dev = Pad3(ToInt(line.dev))]

\* the two S: patterns
ScriptMatchStrings(st, line) ==
    IF line.kind = "SM" THEN [st EXCEPT !.manufacturer = line.text]
    ELSE IF line.kind = "SP" THEN [st EXCEPT !.product = line.text]
    ELSE st

\* the P: pattern; missing are the device files that do not exist, and the
\* print for such a file reads possible_bus, a name nothing defines
ScriptMatchIds(st, line, vendor_id, product_id, missing) ==
    IF line.kind # "P" THEN st
    ELSE LET ids == [st EXCEPT !.found_vendor_id = line.vendor,
                               !.found_product_id = line.prodid]
         IN  IF st.bus = Unbound
             THEN [ids EXCEPT !.raised = "UnboundLocalError"]
             ELSE LET path == DevicePath(st.bus, st.dev)
                      at == [ids EXCEPT !.device_path = path]
                  IN  IF vendor_id = line.vendor /\ product_id = line.prodid
                      THEN IF path \notin missing
                           THEN [at EXCEPT !.device_paths = Append(@, path)]
                           ELSE [at EXCEPT !.raised = "NameError"]
                      ELSE at

\* one turn of the while loop on a line that was read
ScriptParseLine(st, line, vendor_id, product_id, missing) ==
    LET head == ScriptMatchHeader(st, line)
    IN  IF head.raised # "" THEN head
        ELSE ScriptMatchIds(ScriptMatchStrings(head, line), line,
                            vendor_id, product_id, missing)

\* after the loop: "if bus and dev:" appends the final device
ScriptFlushFinal(st) ==
    IF st.bus = Unbound \/ st.device_path = Unbound
    THEN [st EXCEPT !.raised = "UnboundLocalError"]
    ELSE [st EXCEPT !.found_devices = Append(@, Device(st))]

RECURSIVE ScriptParseFrom(_, _, _, _, _)
ScriptParseFrom(st, lines, vendor_id, product_id, missing) ==
    IF st.raised # "" THEN st
    ELSE IF lines = <<>> THEN ScriptFlushFinal(st)
    ELSE ScriptParseFrom(
             ScriptParseLine(st, Head(lines), vendor_id, product_id, missing),
             Tail(lines), vendor_id, product_id, missing)

\* the script's get_usb_devices_paths; isfile is what os.path.isfile answers
\* for the debug file, and without the file the empty list is returned
ScriptGetUsbDevicesPaths(vendor_id, product_id, isfile, missing) ==
    IF ~isfile THEN ScriptParserInit
    ELSE ScriptParseFrom(ScriptParserInit, ScriptTree, vendor_id, product_id,
                         missing)

\* glob.glob(USB_CONTROLLER_PATHS) in the script
ScriptControllers ==
    [i \in 1..NumControllers |->
        [dir |-> <<"sys", "bus", "pci", "drivers", "ehci_hcd">>, base |-> i]]

\* the two writes the script makes for a controller
ScriptResetActions == <<"unbind", "bind">>

\* the n-th write of the script's reset_usb_controllers
ScriptWrite(n, ok) ==
    LET usb_ctrl == ScriptControllers[((n - 1) \div Len(ScriptResetActions)) + 1]
        action == ScriptResetActions[((n - 1) % Len(ScriptResetActions)) + 1]
    IN  [by |-> "script", hub |-> usb_ctrl, action |-> action,
         file |-> Append(usb_ctrl.dir, action), data |-> usb_ctrl.base,
         ok |-> ok]

\* the locals of the script: devices (the empty list stands for None), the
\* place d in it, paths and the place k in it, the count c of controller
\* writes, and the logs of the calls made for each entry
ScriptLocalsInit ==
    [devices |-> <<>>, d |-> 1, paths |-> <<>>, k |-> 1, c |-> 1,
     resolved |-> <<>>, sent |-> <<>>]

\* nothing catches an exception other than ValueError: the interpreter
\* prints the traceback and exits 1
ScriptRaise ==
    /\ pc' = "exit"
    /\ exit_code' = 1

InitScript ==
    /\ caller = "script"
    /\ args \in ScriptArgSpace
    /\ pc = "s_args"
    /\ exit_code = NoExit
    /\ loc = ScriptLocalsInit
    /\ rh = RhIdle
    /\ called = <<>>
    /\ writes = <<>>
    /\ listed = <<>>
    /\ ParseIdle
    /\ SignalIdle
    /\ HubsIdle

\* if args.devices: devices = [device.strip() for device in
\* args.devices.split(",")]
ScriptDevices ==
    /\ pc = "s_args"
    /\ loc' = [loc EXCEPT !.devices =
                   IF Truthy(args.devices)
                   THEN LET split == SplitOn(args.devices, ",")
                        IN  [i \in 1..Len(split) |-> Strip(split[i])]
                   ELSE <<>>]
    /\ pc' = "s_reset"
    /\ UNCHANGED <<exit_code, args, rh, called, writes, listed, parse_vars,
                   signal_vars, hub_vars, caller>>

\* if args.reset: reset_usb_controllers(), one write at a time; a failed
\* open or write raises OSError
ScriptReset ==
    /\ pc = "s_reset"
    /\ IF args.reset
          /\ loc.c <= Len(ScriptControllers) * Len(ScriptResetActions)
       THEN \E ok \in BOOLEAN :
                /\ writes' = Append(writes, ScriptWrite(loc.c, ok))
                /\ IF ok
                   THEN loc' = [loc EXCEPT !.c = @ + 1] /\ UNCHANGED ctl_vars
                   ELSE ScriptRaise /\ UNCHANGED loc
       ELSE /\ pc' = "s_devices"
            /\ UNCHANGED <<exit_code, loc, writes>>
    /\ UNCHANGED <<args, rh, called, listed, parse_vars, signal_vars, hub_vars,
                   caller>>

\* except ValueError: print("Bogus device {} given"), then the next entry
ScriptBogus ==
    /\ listed' = Append(listed, [what |-> "bogus", entry |-> loc.d,
                                 items |-> loc.devices[loc.d]])
    /\ loc' = [loc EXCEPT !.d = @ + 1]
    /\ UNCHANGED ctl_vars

\* for device in devices: the split of the entry and the call of
\* get_usb_devices_paths, or the end of the loop
ScriptNextDevice ==
    /\ pc = "s_devices"
    /\ IF loc.d > Len(loc.devices)
       THEN /\ pc' = "s_list"
            /\ UNCHANGED <<exit_code, loc, listed>>
       ELSE LET tokens == SplitOn(loc.devices[loc.d], ":")
            IN  IF Len(tokens) # 2
                THEN ScriptBogus
                ELSE \E isfile \in BOOLEAN, missing \in SUBSET ScriptDevicePaths :
                         LET got == ScriptGetUsbDevicesPaths(
                                        tokens[1], tokens[2], isfile, missing)
                         IN  /\ IF got.raised # ""
                                THEN ScriptRaise /\ UNCHANGED loc
                                ELSE /\ loc' = [loc EXCEPT
                                                !.paths = got.device_paths,
                                                !.k = 1,
                                                !.resolved = Append(@,
                                                    [entry |-> loc.d,
                                                     paths |-> got.device_paths])]
                                     /\ pc' = "s_paths"
                                     /\ UNCHANGED exit_code
                             /\ UNCHANGED listed
    /\ UNCHANGED <<args, rh, called, writes, parse_vars, signal_vars, hub_vars,
                   caller>>

\* for path in paths: reset_usb_device(path).  The call opens the file,
\* sends USBDEVFS_RESET and closes the file; when the open fails its
\* finally clause reads fd unassigned and UnboundLocalError leaves the call.
ScriptResetDevice ==
    /\ pc = "s_paths"
    /\ IF loc.k > Len(loc.paths)
       THEN /\ pc' = "s_devices"
            /\ loc' = [loc EXCEPT !.d = @ + 1]
            /\ UNCHANGED <<exit_code, syslog, results>>
       ELSE \E opened \in BOOLEAN, sent \in BOOLEAN :
                LET path == loc.paths[loc.k]
                    fd == LowestFree
                    open == [call |-> ThisCall, op |-> "open", path |-> path,
                             fd |-> IF opened THEN fd ELSE NoFd, ok |-> opened]
                    ioctl == [call |-> ThisCall, op |-> "ioctl", path |-> path,
                              fd |-> fd, ok |-> sent]
                    close == [call |-> ThisCall, op |-> "close", path |-> path,
                              fd |-> fd, ok |-> TRUE]
                IN  /\ (~opened => sent)   \* no ioctl is made then
                    /\ syslog' = IF opened
                                 THEN syslog \o <<open, ioctl, close>>
                                 ELSE Append(syslog, open)
                    /\ results' = Append(results,
                                      IF ~opened THEN "UnboundLocalError"
                                      ELSE IF sent THEN "True" ELSE "False")
                    /\ loc' = [loc EXCEPT !.k = @ + 1,
                                          !.sent = Append(@, [entry |-> loc.d,
                                                              path |-> path])]
                    /\ IF opened THEN UNCHANGED ctl_vars ELSE ScriptRaise
    /\ UNCHANGED <<args, rh, called, writes, listed, spc, dsig, open_fds,
                   parse_vars, hub_vars, caller>>

\* if args.list: get_usb_devices_paths(list_only=True); then the script ends
ScriptList ==
    /\ pc = "s_list"
    /\ IF args.list
       THEN \E isfile \in BOOLEAN :
                LET got == ScriptGetUsbDevicesPaths(None, None, isfile, {})
                IN  IF got.raised # ""
                    THEN ScriptRaise /\ UNCHANGED listed
                    ELSE /\ listed' = Append(listed,
                                [what |-> "devices", entry |-> 0,
                                 items |-> got.found_devices])
                         /\ pc' = "exit"
                         /\ exit_code' = 0
       ELSE /\ pc' = "exit"
            /\ exit_code' = 0
            /\ UNCHANGED listed
    /\ UNCHANGED <<args, loc, rh, called, writes, parse_vars, signal_vars,
                   hub_vars, caller>>

NextScript ==
    \/ ScriptDevices
    \/ ScriptReset
    \/ ScriptNextDevice
    \/ ScriptResetDevice
    \/ ScriptList

SpecScript == InitScript /\ [][NextScript]_vars

(***************************************************************************)
(* The blocks of the stream: header k opens block k, which runs to the     *)
(* line before header k+1 or to the end of the stream.                     *)
(***************************************************************************)
\* the positions of the header lines among the first n lines
Headers(n) == {i \in 1..n : stream[i].kind = "T"}

HeaderCount(n) == Cardinality(Headers(n))

\* the position of the k-th header line
HeaderPos(k) == CHOOSE i \in Headers(Len(stream)) : HeaderCount(i) = k

\* the positions of the lines of kind in block k
BlockLines(k, kind) ==
    {i \in (HeaderPos(k) + 1)..Len(stream) :
        HeaderCount(i) = k /\ stream[i].kind = kind}

Last(S) == CHOOSE i \in S : \A j \in S : j <= i

\* the path that the numbers of header k name
HeaderPath(k) ==
    DevicePath(Pad3(ToInt(stream[HeaderPos(k)].bus)),
               Pad3(ToInt(stream[HeaderPos(k)].dev)))

\* a stream in the kernel's format: no vendor/product-id line comes before
\* the first header line
WellFormed ==
    \A i \in 1..Len(stream) : stream[i].kind = "P" => HeaderCount(i) >= 1

\* C2: on a well-formed stream with N >= 1 header lines the parser builds
\* exactly N records in header order: while the loop runs there is one
\* record per header read but the last one read (none on the first header,
\* the record of header k on reading header k+1), the return adds the
\* record of the last header, and the record of a block with an id line
\* carries the path of that block's own header.
C2_OneRecordPerHeader ==
    (WellFormed /\ HeaderCount(Len(stream)) >= 1) =>
        /\ ppc = "loop" =>
               Len(parser.found_devices) =
                   IF HeaderCount(pos) = 0 THEN 0 ELSE HeaderCount(pos) - 1
        /\ ppc = "done" =>
               Len(parser.found_devices) = HeaderCount(Len(stream))
        /\ ppc # "raised"
        /\ \A k \in 1..Len(parser.found_devices) :
               BlockLines(k, "P") # {} =>
                   parser.found_devices[k].device_path = HeaderPath(k)

\* a stream of three headers was parsed to the end and gave three records
C2_Witness ==
    /\ ppc = "done"
    /\ WellFormed
    /\ HeaderCount(Len(stream)) = 3
    /\ Len(parser.found_devices) = 3
    /\ BlockLines(2, "P") # {}

\* C3 (as claimed): every emitted record carries only values read from the
\* lines of its own block; a field with no line in the block is empty.
C3_RecordsCarryOwnBlockOnly ==
    \A k \in 1..Len(parser.found_devices) :
        LET rec == parser.found_devices[k]
            m == BlockLines(k, "SM")
            p == BlockLines(k, "SP")
            ids == BlockLines(k, "P")
        IN  /\ rec.manufacturer = IF m = {} THEN None ELSE stream[Last(m)].text
            /\ rec.product = IF p = {} THEN None ELSE stream[Last(p)].text
            /\ rec.vendor_id =
                   IF ids = {} THEN None ELSE stream[Last(ids)].vendor
            /\ rec.product_id =
                   IF ids = {} THEN None ELSE stream[Last(ids)].prodid

\* C9 (as claimed): every emitted record has the device path named by the
\* numbers of its own header line, zero-padded to 3 digits.
C9_DevicePathOfOwnHeader ==
    \A k \in 1..Len(parser.found_devices) :
        parser.found_devices[k].device_path = HeaderPath(k)

\* the system calls of the n-th call of send_signal_usb_device
CallLog(n) == SelectSeq(syslog, LAMBDA e : e.call = n)

\* the n-th call could not open the device file, or its ioctl failed
CallFailed(n) ==
    \E i \in 1..Len(syslog) :
        syslog[i].call = n /\ syslog[i].op \in {"open", "ioctl"} /\ ~syslog[i].ok

\* C1 (as claimed): a call with a valid signal whose open or whose ioctl
\* failed returns False; it does not end in an exception.
C1_FailureReturnsFalse ==
    \A n \in 1..Len(results) : CallFailed(n) => results[n] = "False"

\* C8: a descriptor that os.open returned is closed exactly once before the
\* function returns, whether the ioctl succeeded or failed; between calls
\* no descriptor is open; every close is of the descriptor the same call
\* opened, so none is made when the open failed.
C8_HandleClosedOnce ==
    /\ spc = "idle" => open_fds = {}
    /\ spc # "idle" => open_fds \subseteq {dsig.fd}
    /\ \A n \in 1..Len(results) :
           LET log == CallLog(n)
               opens == {i \in 1..Len(log) : log[i].op = "open" /\ log[i].ok}
               closes == {i \in 1..Len(log) : log[i].op = "close"}
           IN  /\ Cardinality(closes) = Cardinality(opens)
               /\ Cardinality(closes) <= 1
               /\ \A c \in closes :
                      \E o \in opens : o < c /\ log[o].fd = log[c].fd

\* a call whose ioctl failed and a call whose ioctl succeeded both returned
\* with their descriptor closed
C8_Witness ==
    /\ spc = "idle"
    /\ \E n, m \in 1..Len(results) :
           /\ results[n] = "False" /\ results[m] = "True"
           /\ \E e \in {CallLog(n)[i] : i \in 1..Len(CallLog(n))} : e.op = "close"
           /\ \E e \in {CallLog(n)[i] : i \in 1..Len(CallLog(n))} :
                  e.op = "ioctl" /\ ~e.ok

\* the hubs of the tree, in order, that can be read and satisfy want
HubsWhere(want(_)) ==
    LET keep == SelectSeq(systree, LAMBDA e : e.files.readable /\ want(e))
    IN  [i \in 1..Len(keep) |-> keep[i].hub_path]

\* C10 (as claimed): get_usb_hubs returns every readable hub when both
\* filters are absent and otherwise exactly the readable hubs whose trimmed
\* ids both equal the filter strings, so nothing for a filter that equals
\* the ids of no hub, the filter of two empty strings included.
C10_ExactMatchOrAll ==
    hpc = "done" =>
        hubs = IF hfilt = <<None, None>>
               THEN HubsWhere(LAMBDA e : TRUE)
               ELSE HubsWhere(LAMBDA e : /\ Strip(e.files.idVendor) = hfilt[1]
                                         /\ Strip(e.files.idProduct) = hfilt[2])

\* the positions in the log of the writes made for by
WritesAt(by) == {n \in 1..Len(writes) : writes[n].by = by}

\* the writes made for by, in order
WritesBy(by) == SelectSeq(writes, LAMBDA w : w.by = by)

\* the writes that resetting every hub of a list takes, in order
ResetPairs(hublist) ==
    [n \in 1..(2 * Len(hublist)) |->
        [hub |-> hublist[(n + 1) \div 2],
         action |-> IF n % 2 = 1 THEN "unbind" ELSE "bind"]]

\* the writes made for by are next to each other in the log
Contiguous(by) ==
    \A a, b \in WritesAt(by) : \A n \in a..b : n \in WritesAt(by)

C5_FailedWriteIsLast ==
    /\ \A n \in 1..(Len(writes) - 1) : writes[n].ok
    /\ (writes # <<>> /\ ~writes[Len(writes)].ok) =>
           (pc = "exit" /\ exit_code = 201)
    /\ \A c \in 1..Len(called) :
           \A a, b \in WritesAt(called[c].by) :
               (writes[a].hub = writes[b].hub
                /\ writes[a].action = writes[b].action) => a = b

\* the unbind write of a hub reset failed and the run is over
C5_Witness ==
    /\ pc = "exit"
    /\ writes # <<>>
    /\ writes[Len(writes)].by = "reset_hub"
    /\ writes[Len(writes)].action = "unbind"
    /\ ~writes[Len(writes)].ok

\* the hubs or controllers that the writes made for by are taken from
TargetsOf(by) == IF by = "reset_all" THEN Controllers ELSE loc.hubs

\* C6 (as claimed): a failed write on one hub or controller is not fatal to
\* the run: when the run is over, every target of a list that was begun
\* has had its write attempted.
C6_FailedWriteSparesTheOthers ==
    pc = "exit" =>
        \A by \in {"reset_all", "disable_hub", "enable_hub", "reset_hub"} :
            WritesAt(by) # {} =>
                \A i \in 1..Len(TargetsOf(by)) :
                    \E n \in WritesAt(by) : writes[n].hub = TargetsOf(by)[i]

\* --device is given and is not two tokens around one colon
Malformed == Truthy(args.device) /\ Len(Split(args.device)) # 2

\* C7 (as claimed): with a malformed --device the run does nothing (no
\* bind or unbind write, no device signal, no listing) and ends with exit
\* code 2.
C7_MalformedDeviceDoesNothing ==
    Malformed =>
        /\ writes = <<>>
        /\ syslog = <<>>
        /\ listed = <<>>
        /\ pc = "exit" => exit_code = 2

\* str.upper() of a hexadecimal digit
UpperChar(c) ==
    CASE c = "a" -> "A" [] c = "b" -> "B" [] c = "c" -> "C"
      [] c = "d" -> "D" [] c = "e" -> "E" [] c = "f" -> "F"
      [] OTHER -> c

\* str.upper() of an id, None left as it is
Upper(text) == IF text = None THEN None ELSE [i \in 1..Len(text) |-> UpperChar(text[i])]

\* C11 (as claimed): on a well-formed stream the ids read from a
\* vendor/product-id line are kept in uppercase, in the parser's locals
\* (which the filter is compared with) and in every record.
C11_IdsUppercased ==
    WellFormed =>
        /\ parser.found_vendor_id = Upper(parser.found_vendor_id)
        /\ parser.found_product_id = Upper(parser.found_product_id)
        /\ \A k \in 1..Len(parser.found_devices) :
               /\ parser.found_devices[k].vendor_id
                      = Upper(parser.found_devices[k].vendor_id)
               /\ parser.found_devices[k].product_id
                      = Upper(parser.found_devices[k].product_id)

\* C13 (as claimed): a stream without a header line is parsed to a normal
\* return with no record and no path; nothing is raised.
C13_NoHeaderReturnsEmpty ==
    (HeaderCount(Len(stream)) = 0 /\ ppc # "loop") =>
        /\ ppc = "done"
        /\ parser.found_devices = <<>>
        /\ parser.device_paths = <<>>

\* C14: a bind or unbind write made for --disable-hub, --enable-hub or
\* --reset-hub occurs only in a run with no device-action flag; with one
\* set, the only writes are those of --reset-all.
C14_DeviceActionsShutOutHubActions ==
    \A n \in 1..Len(writes) : writes[n].by # "reset_all" => ~DeviceAction

\* a run with a device flag and every hub flag set signalled the devices,
\* went on to its end and wrote no control file
C14_Witness ==
    /\ pc = "exit"
    /\ exit_code = 0
    /\ DeviceAction
    /\ args.disable_hub /\ args.enable_hub /\ args.reset_hub
    /\ args.hub # <<>>
    /\ Len(results) >= 2
    /\ writes = <<>>

\* an entry of the list that does not split into two tokens at ":"
IsBogus(device) == Len(SplitOn(device, ":")) # 2

\* the reports "Bogus device ... given" printed for entry j
BogusReports(j) ==
    {n \in 1..Len(listed) : listed[n].what = "bogus" /\ listed[n].entry = j}

\* the device files reset_usb_device was called with for entry j, in order
SentFor(j) ==
    LET calls == SelectSeq(loc.sent, LAMBDA e : e.entry = j)
    IN  [n \in 1..Len(calls) |-> calls[n].path]

\* C12 (as claimed): every malformed entry the loop has come to was
\* reported once, with its own text, and no device was reset for it; only
\* malformed entries are reported; when the script has ended, every
\* well-formed entry after such a malformed entry was resolved and
\* reset_usb_device was called for each path found for it; the calls are
\* made in list order.
C12_BogusEntrySkippedOnly ==
    /\ \A j \in 1..Len(loc.devices) :
           IsBogus(loc.devices[j]) =>
               /\ Cardinality(BogusReports(j)) = IF j < loc.d THEN 1 ELSE 0
               /\ \A n \in BogusReports(j) : listed[n].items = loc.devices[j]
               /\ SentFor(j) = <<>>
               /\ (pc = "exit" /\ j < loc.d) =>
                      \A i \in (j + 1)..Len(loc.devices) :
                          ~IsBogus(loc.devices[i]) =>
                              \E r \in 1..Len(loc.resolved) :
                                  /\ loc.resolved[r].entry = i
                                  /\ SentFor(i) = loc.resolved[r].paths
    /\ \A n \in 1..Len(listed) :
           listed[n].what = "bogus" => IsBogus(loc.devices[listed[n].entry])
    /\ \A m, n \in 1..Len(loc.sent) :
           m < n => loc.sent[m].entry <= loc.sent[n].entry

====
